---- MODULE Spec2Model ----
(***************************************************************************)
(* State-machine model of the Sahay assistant core:                        *)
(*   - ChatHistoryService (src/src/services/ChatHistoryService.ts): the    *)
(*     per-service JSON collection files and their read-modify-write       *)
(*     operations;                                                         *)
(*   - LLMService / WhisperService (src/src/services/LLMService.ts) and    *)
(*     the chat screens that drive them.                                   *)
(* Strings are sequences of one-character strings.  Dates are integer      *)
(* readings of a clock; JSON.stringify / JSON.parse / new Date(iso) carry  *)
(* such a reading through unchanged, which is why getAllChats returns the  *)
(* stored records as they were written.                                    *)
(***************************************************************************)
EXTENDS Integers, Sequences, FiniteSets, TLC

VARIABLES
    files,      \* ChatHistoryService: the <service>_chats.json files
    clock,      \* the next reading of Date.now()
    nextId,     \* the next chat id generateChatId hands out
    opsUsed,    \* store operations charged against MaxOps
    lastOp,     \* the store operation performed last, and how it ended
    llm,        \* the LLMService instance
    calls,      \* the generateResponse invocations, in call order
    whisper,    \* the WhisperService instance
    stt,        \* the latest WhisperService.transcribe invocation
    screen,     \* the screen App renders, with the component state
    mounts,     \* category screens mounted so far
    fin,        \* post-processing of a finished stream: input and output
    pure,       \* a function applied on its own: name, input and result
    saves       \* ChatHistoryService operations between their awaits

storeVars == <<files, clock, nextId, opsUsed, lastOp>>

genVars == <<llm, calls, whisper, stt, screen, mounts>>

vars == <<files, clock, nextId, opsUsed, lastOp,
          llm, calls, whisper, stt, screen, mounts, fin, pure, saves>>

(***************************************************************************)
(* Bounds of the exploration.                                              *)
(***************************************************************************)
\* chats ever created by createChat in one run (one more than the cap, so
\* that the eviction of the 51st insertion happens)
MaxIds == 51
\* operations other than createChat on LongService in one run
MaxOps == 1

(***************************************************************************)
(* ChatHistoryService                                                      *)
(***************************************************************************)
\* Chat['service']; the code treats every service alike (getFilePath only
\* changes the file name), two of the five are modelled
Services == {"general", "legal"}

\* the service whose collection is driven past the cap
LongService == "general"

\* saveChat: existingChats.slice(0, 50)
MaxChats == 50

Min(a, b) == IF a <= b THEN a ELSE b

\* ChatMessage, as the screens build it
Msg(i, t, c) == [id |-> i, type |-> t, content |-> c]

\* the message lists handed to updateChatMessages / saveChat
MsgInputs == { << Msg(2, "user", <<"h">>), Msg(3, "assistant", <<"a">>) >> }

\* the first message of a conversation, as a user types it
Hello == <<"H", "e", "l", "l", "o">>

\* generateTitle with the ellipsis added to the first maxLength characters
GenerateTitleNoReserve(firstMessage) ==
    IF Len(firstMessage) <= 40 THEN firstMessage
    ELSE SubSeq(firstMessage, 1, 40) \o <<".", ".", ".">>

\* generateTitle: maxLength = 40; substring(0, maxLength - 3) + '...'
GenerateTitle(firstMessage) ==
    IF Len(firstMessage) <= 40 THEN firstMessage
    ELSE SubSeq(firstMessage, 1, 40 - 3) \o <<".", ".", ".">>

\* the Chat object createChat builds
NewChat(id, service, initialMessage, now) ==
    [id |-> id, service |-> service, title |-> GenerateTitle(initialMessage),
     messages |-> <<>>, createdAt |-> now, updatedAt |-> now]

\* the file <service>_chats.json: absent, or holding a JSON array of chats
NoFile == [exists |-> FALSE, chats |-> <<>>]

\* getAllChats: [] when the file does not exist, [] when reading or parsing
\* throws (readOk = FALSE), the parsed array otherwise
GetAllChats(fs, service, readOk) ==
    IF ~fs[service].exists THEN <<>>
    ELSE IF ~readOk THEN <<>>
    ELSE fs[service].chats

\* existingChats.findIndex(c => c.id === chat.id); 0 stands for -1
FindIndex(chats, id) ==
    IF \E i \in 1..Len(chats) : chats[i].id = id
    THEN CHOOSE i \in 1..Len(chats) :
            /\ chats[i].id = id
            /\ \A j \in 1..(i-1) : chats[j].id # id
    ELSE 0

\* the array saveChat builds before slicing: replace in place, or unshift
Upsert(existing, chat, now) ==
    LET stamped == [chat EXCEPT !.updatedAt = now]
        idx == FindIndex(existing, chat.id)
    IN IF idx > 0 THEN [existing EXCEPT ![idx] = stamped]
       ELSE <<stamped>> \o existing

\* saveChat writing every collection to the file of one service
SaveChatOneFile(fs, chat, now, readOk) ==
    LET merged == Upsert(GetAllChats(fs, chat.service, readOk), chat, now)
    IN [fs EXCEPT !["general"] =
          [exists |-> TRUE,
           chats |-> SubSeq(merged, 1, Min(MaxChats, Len(merged)))]]

\* saveChat without the slice
SaveChatNoSlice(fs, chat, now, readOk) ==
    [fs EXCEPT ![chat.service] =
        [exists |-> TRUE,
         chats |-> Upsert(GetAllChats(fs, chat.service, readOk), chat, now)]]

\* saveChat(chat): read the collection, update or add, keep 50, write
SaveChat(fs, chat, now, readOk) ==
    LET merged == Upsert(GetAllChats(fs, chat.service, readOk), chat, now)
    IN [fs EXCEPT ![chat.service] =
          [exists |-> TRUE,
           chats |-> SubSeq(merged, 1, Min(MaxChats, Len(merged)))]]

\* getChat: chats.find(c => c.id === chatId) || null; <<>> stands for null
GetChat(fs, service, id, readOk) ==
    LET chats == GetAllChats(fs, service, readOk)
        idx == FindIndex(chats, id)
    IN IF idx > 0 THEN <<chats[idx]>> ELSE <<>>

\* updateChatMessages that saves the messages under the id even when
\* getChat found no such chat
UpdateMessagesOrInsert(fs, service, id, messages, now, readOk) ==
    LET found == GetChat(fs, service, id, readOk)
        chat == IF found # <<>> THEN found[1]
                ELSE NewChat(id, service, <<>>, now)
    IN SaveChat(fs, [chat EXCEPT !.messages = messages,
                                 !.updatedAt = now], now, readOk)

\* updateChatMessages as a function of the files: nothing when getChat
\* returns null
UpdateMessages(fs, service, id, messages, now, readOk) ==
    LET found == GetChat(fs, service, id, readOk)
    IN IF found # <<>>
       THEN SaveChat(fs, [found[1] EXCEPT !.messages = messages,
                                          !.updatedAt = now], now, readOk)
       ELSE fs

\* chats.filter(c => c.id !== chatId)
RECURSIVE FilterOut(_, _)
FilterOut(chats, id) ==
    IF chats = <<>> THEN <<>>
    ELSE IF Head(chats).id = id THEN FilterOut(Tail(chats), id)
    ELSE <<Head(chats)>> \o FilterOut(Tail(chats), id)

\* the ids a caller names: the two earliest created chats and the latest
TargetIds == {1, 2, nextId - 1} \cap (1..(nextId - 1))

IdsOf(chats) == {chats[i].id : i \in 1..Len(chats)}

InitStore ==
    /\ saves = <<>>
    /\ files = [s \in Services |-> NoFile]
    /\ clock = 1
    /\ nextId = 1
    /\ opsUsed = 0
    /\ lastOp = [op |-> "none", service |-> LongService, id |-> 0,
                 fault |-> FALSE, threw |-> FALSE]

\* an operation other than createChat on LongService draws on MaxOps
Charge(service, isCreate) ==
    IF isCreate /\ service = LongService
    THEN UNCHANGED opsUsed
    ELSE /\ opsUsed < MaxOps
         /\ opsUsed' = opsUsed + 1

\* createChat(service, initialMessage, language), as it changes the store
CreateChatFrom(service, initialMessage) ==
    /\ nextId <= MaxIds
    /\ Charge(service, TRUE)
    /\ files' = SaveChat(files, NewChat(nextId, service, initialMessage,
                                        clock), clock, TRUE)
    /\ nextId' = nextId + 1
    /\ clock' = clock + 1
    /\ lastOp' = [op |-> "create", service |-> service, id |-> nextId,
                  fault |-> FALSE, threw |-> FALSE]

\* createChat(service, 'Hello', language)
CreateChat(service) ==
    /\ CreateChatFrom(service, Hello)
    /\ UNCHANGED <<genVars, fin, pure, saves>>

\* updateChatMessages(service, chatId, messages)
UpdateChatMessages(service, id, messages) ==
    /\ Charge(service, FALSE)
    /\ files' = UpdateMessages(files, service, id, messages, clock, TRUE)
    /\ clock' = IF GetChat(files, service, id, TRUE) # <<>>
                THEN clock + 1 ELSE clock
    /\ lastOp' = [op |-> "update", service |-> service, id |-> id,
                  fault |-> FALSE, threw |-> FALSE]
    /\ UNCHANGED <<nextId, genVars, fin, pure, saves>>

\* deleteChat(service, chatId)
DeleteChat(service, id) ==
    /\ Charge(service, FALSE)
    /\ files' = [files EXCEPT ![service] =
                    [exists |-> TRUE,
                     chats |-> FilterOut(GetAllChats(files, service, TRUE), id)]]
    /\ lastOp' = [op |-> "delete", service |-> service, id |-> id,
                  fault |-> FALSE, threw |-> FALSE]
    /\ UNCHANGED <<clock, nextId, genVars, fin, pure, saves>>

\* saveChat(chat) called with a chat object the caller holds
SaveChatCall(service, id, messages) ==
    /\ Charge(service, FALSE)
    /\ LET chat == [NewChat(id, service, Hello, 1) EXCEPT
                      !.messages = messages]
       IN files' = SaveChat(files, chat, clock, TRUE)
    /\ clock' = clock + 1
    /\ lastOp' = [op |-> "save", service |-> service, id |-> id,
                  fault |-> FALSE, threw |-> FALSE]
    /\ UNCHANGED <<nextId, genVars, fin, pure, saves>>

NextStore ==
    \/ \E s \in Services : CreateChat(s)
    \/ \E s \in Services, id \in TargetIds, m \in MsgInputs :
            UpdateChatMessages(s, id, m)
    \/ \E s \in Services, id \in TargetIds : DeleteChat(s, id)
    \/ \E s \in Services, id \in TargetIds, m \in MsgInputs :
            SaveChatCall(s, id, m)

(***************************************************************************)
(* ChatHistoryService on a storage that may fail: readOk is whether the    *)
(* reads of getAllChats (RNFS.exists, RNFS.readFile, JSON.parse) go        *)
(* through, writeOk whether RNFS.writeFile does                            *)
(***************************************************************************)
\* operations in one run on the failing storage
MaxIoOps == 3
\* uses of the history list in one behaviour: a chat loaded, a new chat
\* started
MaxLoads == 1

\* what lastOp keeps of an operation
Outcome(op, service, id, readOk, writeOk, threw) ==
    [op |-> op, service |-> service, id |-> id,
     fault |-> ~readOk \/ ~writeOk, threw |-> threw]

\* createChat -> saveChat: the catch of saveChat rethrows a failed write
CreateChatIO(service, readOk, writeOk) ==
    /\ opsUsed < MaxIoOps
    /\ opsUsed' = opsUsed + 1
    /\ files' = IF writeOk
                THEN SaveChat(files, NewChat(nextId, service, Hello, clock),
                              clock, readOk)
                ELSE files
    /\ nextId' = nextId + 1
    /\ clock' = clock + 1
    /\ lastOp' = Outcome("create", service, nextId, readOk, writeOk, ~writeOk)
    /\ UNCHANGED <<genVars, fin, pure, saves>>

\* updateChatMessages: nothing at all when getChat finds no chat
UpdateChatMessagesIO(service, id, messages, readOk, writeOk) ==
    LET found == GetChat(files, service, id, readOk) # <<>>
    IN /\ opsUsed < MaxIoOps
       /\ opsUsed' = opsUsed + 1
       /\ files' = IF found /\ writeOk
                   THEN UpdateMessages(files, service, id, messages, clock,
                                       readOk)
                   ELSE files
       /\ clock' = clock + 1
       /\ lastOp' = Outcome("update", service, id, readOk,
                            ~found \/ writeOk, found /\ ~writeOk)
       /\ UNCHANGED <<nextId, genVars, fin, pure, saves>>

\* deleteChat: the catch rethrows a failed write
DeleteChatIO(service, id, readOk, writeOk) ==
    /\ opsUsed < MaxIoOps
    /\ opsUsed' = opsUsed + 1
    /\ files' = IF writeOk
                THEN [files EXCEPT ![service] =
                        [exists |-> TRUE,
                         chats |-> FilterOut(GetAllChats(files, service,
                                                         readOk), id)]]
                ELSE files
    /\ lastOp' = Outcome("delete", service, id, readOk, writeOk, ~writeOk)
    /\ UNCHANGED <<clock, nextId, genVars, fin, pure, saves>>

\* getAllChats: the catch returns []
GetAllChatsIO(service, readOk) ==
    /\ opsUsed < MaxIoOps
    /\ opsUsed' = opsUsed + 1
    /\ lastOp' = Outcome("list", service, 0, readOk, TRUE, FALSE)
    /\ UNCHANGED <<files, clock, nextId, genVars, fin, pure, saves>>

\* getChat: getAllChats, then find
GetChatIO(service, id, readOk) ==
    /\ opsUsed < MaxIoOps
    /\ opsUsed' = opsUsed + 1
    /\ lastOp' = Outcome("get", service, id, readOk, TRUE, FALSE)
    /\ UNCHANGED <<files, clock, nextId, genVars, fin, pure, saves>>

NextStoreIO ==
    \/ \E s \in Services, r, w \in BOOLEAN : CreateChatIO(s, r, w)
    \/ \E s \in Services, id \in TargetIds, m \in MsgInputs,
          r, w \in BOOLEAN : UpdateChatMessagesIO(s, id, m, r, w)
    \/ \E s \in Services, id \in TargetIds, r, w \in BOOLEAN :
            DeleteChatIO(s, id, r, w)
    \/ \E s \in Services, r \in BOOLEAN : GetAllChatsIO(s, r)
    \/ \E s \in Services, id \in TargetIds, r \in BOOLEAN :
            GetChatIO(s, id, r)

(***************************************************************************)
(* Strings                                                                 *)
(***************************************************************************)
\* String.prototype.trim for the whitespace the model uses
IsSpace(ch) == ch = " "

RECURSIVE TrimStart(_)
TrimStart(s) ==
    IF s # <<>> /\ IsSpace(Head(s)) THEN TrimStart(Tail(s)) ELSE s

RECURSIVE TrimEnd(_)
TrimEnd(s) ==
    IF s # <<>> /\ IsSpace(s[Len(s)])
    THEN TrimEnd(SubSeq(s, 1, Len(s) - 1))
    ELSE s

Trim(s) == TrimEnd(TrimStart(s))

\* the concatenation of a sequence of fragments
RECURSIVE Flatten(_)
Flatten(ts) == IF ts = <<>> THEN <<>> ELSE Head(ts) \o Flatten(Tail(ts))

(***************************************************************************)
(* LLMService                                                              *)
(***************************************************************************)
\* generateResponse invocations in one run
MaxCalls == 2
\* token fragments the engine streams in one run, over all completions
MaxTokens == 2

\* completion({ messages, n_predict: 10000, stop })
NPredict == 10000

\* data.token values the engine streams
Tokens == { <<"a">>, <<" ">> }

\* new LLMService(modelPath); phase records how the fields came about
NewLLM == [isInitialized |-> FALSE, context |-> FALSE, phase |-> "new"]

\* isReady()
IsReady(svc) == svc.isInitialized

\* a guard that tests the fields the wrong way round
IsNotInitializedInverted(svc) == svc.isInitialized /\ ~svc.context

\* generateResponse / transcribe: if (!this.isInitialized || !this.context)
IsNotInitialized(svc) == ~svc.isInitialized \/ ~svc.context

\* initialize(): both fields are set only when initLlama resolves
InitializeService(svc, ok) ==
    IF ok THEN [isInitialized |-> TRUE, context |-> TRUE, phase |-> "ready"]
    ELSE [svc EXCEPT !.phase = "failed"]

\* release(): only when initialized; a throwing release changes nothing
ReleaseService(svc, ok) ==
    IF svc.isInitialized /\ svc.context /\ ok
    THEN [isInitialized |-> FALSE, context |-> FALSE, phase |-> "released"]
    ELSE svc

NoError == <<>>
NotInitializedError == <<"LLM not initialized. Call initialize() first.">>
\* new Error(`Failed to generate response: ${error}`)
GenerationError(cause) == <<"Failed to generate response: ", cause>>

\* generateResponse up to its first await: the guard, then the one
\* context.completion call; owner, amid and session are the caller's: the
\* component, its placeholder's id and the chat the turn belongs to
StartCall(svc, owner, amid, messages, hasOnToken, hasOnComplete) ==
    LET rejected == IsNotInitialized(svc)
    IN [owner |-> owner, amid |-> amid, session |-> 0,
        hasOnToken |-> hasOnToken, hasOnComplete |-> hasOnComplete,
        readyAtCall |-> IsReady(svc),
        request |-> [messages |-> messages, n_predict |-> NPredict],
        status |-> IF rejected THEN "rejected" ELSE "running",
        error |-> IF rejected THEN NotInitializedError ELSE NoError,
        engineCalls |-> IF rejected THEN 0 ELSE 1,
        emitted |-> <<>>, forwarded |-> <<>>,
        fullResponse |-> <<>>, tokenCount |-> 0,
        completeCalls |-> 0, result |-> <<>>, stopAt |-> -1]

\* the completion callback with the forwarding put under the logging test
OnDataEveryTenth(c, token) ==
    [c EXCEPT !.fullResponse = @ \o token,
              !.tokenCount = @ + 1,
              !.forwarded = IF c.hasOnToken /\ (c.tokenCount + 1) % 10 = 0
                            THEN Append(@, token) ELSE @]

\* the completion callback: (data) => { fullResponse += token; tokenCount++;
\* if (onToken) onToken(token) }
OnData(c, token) ==
    [c EXCEPT !.fullResponse = @ \o token,
              !.tokenCount = @ + 1,
              !.forwarded = IF c.hasOnToken THEN Append(@, token) ELSE @]

\* return fullResponse.trim()
FinalText(buffer) == Trim(buffer)

\* the completion promise resolved: onComplete when given and timings are
\* present, then the return
OnResolved(c, hasTimings) ==
    [c EXCEPT !.status = "resolved",
              !.completeCalls = IF c.hasOnComplete /\ hasTimings
                                THEN @ + 1 ELSE @,
              !.result = FinalText(c.fullResponse)]

\* the completion promise rejected: catch and rethrow, nothing else
OnRejected(c, cause) ==
    [c EXCEPT !.status = "rejected", !.error = GenerationError(cause)]

Running == {i \in 1..Len(calls) : calls[i].status = "running"}

\* fragments the engine has streamed to the first n calls together
RECURSIVE Streamed(_)
Streamed(n) == IF n = 0 THEN 0 ELSE Len(calls[n].emitted) + Streamed(n - 1)

(***************************************************************************)
(* WhisperService                                                          *)
(***************************************************************************)
\* stat.size values of recorded files
AudioSizes == {4999, 5000, 52428800, 52428801}

\* validateAudioFile with the lower limit taken as 5000 bytes
ValidateAudioFileDecimal(size) ==
    IF size < 5000 THEN FALSE
    ELSE IF size > 50 * 1024 * 1024 THEN FALSE
    ELSE TRUE

\* validateAudioFile: fileSizeKB = size / 1024; < 5 and > 50 * 1024 reject
ValidateAudioFile(size) ==
    IF size < 5 * 1024 THEN FALSE
    ELSE IF size > 50 * 1024 * 1024 THEN FALSE
    ELSE TRUE

NoTranscribe == [readyAtCall |-> FALSE, status |-> "none", engineCalls |-> 0]

\* transcribe(audioPath): the guard, the file checks, then the engine call;
\* heard says what the engine and the cleaning left: text, nothing, or a
\* thrown error
TranscribeCall(svc, fileExists, size, heard) ==
    LET st == IF IsNotInitialized(svc) THEN "notInitialized"
              ELSE IF ~fileExists THEN "fileNotFound"
              ELSE IF ~ValidateAudioFile(size) THEN "validationFailed"
              ELSE heard
    IN [readyAtCall |-> IsReady(svc),
        status |-> st,
        engineCalls |-> IF st = heard THEN 1 ELSE 0]

\* the letters, for the i flag of the regular expressions
UpperLetters ==
    <<"A", "B", "C", "D", "E", "F", "G", "H", "I", "J", "K", "L", "M",
      "N", "O", "P", "Q", "R", "S", "T", "U", "V", "W", "X", "Y", "Z">>
LowerLetters ==
    <<"a", "b", "c", "d", "e", "f", "g", "h", "i", "j", "k", "l", "m",
      "n", "o", "p", "q", "r", "s", "t", "u", "v", "w", "x", "y", "z">>

Lower(ch) ==
    IF \E i \in 1..26 : UpperLetters[i] = ch
    THEN LowerLetters[CHOOSE i \in 1..26 : UpperLetters[i] = ch]
    ELSE ch

LowerSeq(s) == [i \in 1..Len(s) |-> Lower(s[i])]

\* \w
IsWordChar(ch) ==
    \/ \E i \in 1..26 : LowerLetters[i] = Lower(ch)
    \/ ch \in {"0", "1", "2", "3", "4", "5", "6", "7", "8", "9", "_"}

\* text.replace(languagePrompt, ''): the first occurrence of a string
RECURSIVE ReplaceFirst(_, _)
ReplaceFirst(s, pattern) ==
    IF Len(s) < Len(pattern) THEN s
    ELSE IF SubSeq(s, 1, Len(pattern)) = pattern
    THEN SubSeq(s, Len(pattern) + 1, Len(s))
    ELSE <<Head(s)>> \o ReplaceFirst(Tail(s), pattern)

\* text.replace(new RegExp(source, 'gi'), '') for a source that is a
\* sequence of ordinary characters
RECURSIVE RemoveLiteral(_, _)
RemoveLiteral(s, literal) ==
    IF Len(s) < Len(literal) THEN s
    ELSE IF LowerSeq(SubSeq(s, 1, Len(literal))) = LowerSeq(literal)
    THEN RemoveLiteral(SubSeq(s, Len(literal) + 1, Len(s)), literal)
    ELSE <<Head(s)>> \o RemoveLiteral(Tail(s), literal)

\* text.replace(new RegExp(source, 'gi'), '') for a source that is a
\* character class [...]: every character of the class goes
RemoveClass(s, class) == SelectSeq(s, LAMBDA ch : Lower(ch) \notin class)

\* the artifacts array, each entry as new RegExp(artifact, 'gi') reads it:
\* '[BLANK_AUDIO]', '[MUSIC]' and '[NOISE]' are character classes,
\* '(inaudible)' is a group around the word, the rest are plain text
Artifacts ==
    << [class |-> TRUE,
        chars |-> {"b", "l", "a", "n", "k", "_", "u", "d", "i", "o"}],
       [class |-> TRUE, chars |-> {"m", "u", "s", "i", "c"}],
       [class |-> TRUE, chars |-> {"n", "o", "i", "s", "e"}],
       [class |-> FALSE,
        text |-> <<"i", "n", "a", "u", "d", "i", "b", "l", "e">>],
       [class |-> FALSE,
        text |-> <<"T", "h", "a", "n", "k", " ", "y", "o", "u", " ", "f",
                   "o", "r", " ", "w", "a", "t", "c", "h", "i", "n", "g">>],
       [class |-> FALSE,
        text |-> <<"T", "h", "a", "n", "k", "s", " ", "f", "o", "r", " ",
                   "w", "a", "t", "c", "h", "i", "n", "g">>],
       [class |-> FALSE,
        text |-> <<"P", "l", "e", "a", "s", "e", " ", "s", "u", "b", "s",
                   "c", "r", "i", "b", "e">>] >>

\* artifacts.forEach(artifact => cleaned = cleaned.replace(...)), from
\* entry k on
RECURSIVE RemoveArtifacts(_, _)
RemoveArtifacts(s, k) ==
    IF k > Len(Artifacts) THEN s
    ELSE RemoveArtifacts(IF Artifacts[k].class
                         THEN RemoveClass(s, Artifacts[k].chars)
                         ELSE RemoveLiteral(s, Artifacts[k].text), k + 1)

\* the end of the run of \w characters that starts at i
RECURSIVE WordEnd(_, _)
WordEnd(s, i) ==
    IF i < Len(s) /\ IsWordChar(s[i + 1]) THEN WordEnd(s, i + 1) ELSE i

\* the end of the run of \s characters that starts at p, p - 1 when none
RECURSIVE SpaceEnd(_, _)
SpaceEnd(s, p) ==
    IF p <= Len(s) /\ IsSpace(s[p]) THEN SpaceEnd(s, p + 1) ELSE p - 1

\* does (\s+\1) match at p: its last position, 0 when it does not
RepeatAt(s, p, word) ==
    LET q == SpaceEnd(s, p) + 1
    IN IF q > p /\ q + Len(word) - 1 <= Len(s)
          /\ LowerSeq(SubSeq(s, q, q + Len(word) - 1)) = LowerSeq(word)
       THEN q + Len(word) - 1 ELSE 0

\* (\s+\1)* from p on: how many repetitions, and the last position matched
RECURSIVE Repeats(_, _, _)
Repeats(s, p, word) ==
    LET e == RepeatAt(s, p, word)
    IN IF e = 0 THEN [count |-> 0, last |-> p - 1]
       ELSE LET rest == Repeats(s, e + 1, word)
            IN [count |-> rest.count + 1, last |-> rest.last]

\* cleaned.replace(/(\b\w+\b)(\s+\1){3,}/gi, '$1'), from position i on
RECURSIVE CollapseRepeats(_, _)
CollapseRepeats(s, i) ==
    IF i > Len(s) THEN <<>>
    ELSE IF IsWordChar(s[i]) /\ (i = 1 \/ ~IsWordChar(s[i - 1]))
    THEN LET e == WordEnd(s, i)
             word == SubSeq(s, i, e)
             reps == Repeats(s, e + 1, word)
         IN IF reps.count >= 3
            THEN word \o CollapseRepeats(s, reps.last + 1)
            ELSE <<s[i]>> \o CollapseRepeats(s, i + 1)
    ELSE <<s[i]>> \o CollapseRepeats(s, i + 1)

\* cleaned.replace(/\s+/g, ' ')
RECURSIVE CollapseSpaces(_)
CollapseSpaces(s) ==
    IF s = <<>> THEN <<>>
    ELSE IF IsSpace(Head(s))
    THEN <<" ">> \o CollapseSpaces(TrimStart(s))
    ELSE <<Head(s)>> \o CollapseSpaces(Tail(s))

\* cleanTranscription(text, languagePrompt); <<>> stands for no prompt
CleanTranscription(text, languagePrompt) ==
    LET trimmed == Trim(text)
        unprompted == IF languagePrompt # <<>>
                      THEN Trim(ReplaceFirst(trimmed, languagePrompt))
                      ELSE trimmed
        bare == RemoveArtifacts(unprompted, 1)
        collapsed == CollapseRepeats(bare, 1)
    IN Trim(CollapseSpaces(collapsed))

\* languagePrompts['en']
EnglishPrompt ==
    <<"H", "e", "l", "l", "o", ",", " ", "t", "h", "i", "s", " ", "i", "s",
      " ", "s", "p", "o", "k", "e", "n", " ", "i", "n", " ", "E", "n", "g",
      "l", "i", "s", "h", ".">>

\* transcribe from the engine's result on: trim, clean, fall back to the
\* trimmed result when cleaning left nothing, throw when that is empty too
FinishTranscribe(result, prompt) ==
    LET transcription == Trim(result)
        cleaned == CleanTranscription(transcription, prompt)
        final == IF cleaned = <<>> THEN Trim(transcription) ELSE cleaned
    IN IF final = <<>>
       THEN [status |-> "noSpeech", text |-> <<>>]
       ELSE [status |-> "returned", text |-> final]

\* languagePrompts['en'] of the older WhisperService
OlderEnglishPrompt ==
    <<"H", "e", "l", "l", "o", ",", " ", "t", "h", "i", "s", " ", "i", "s",
      " ", "i", "n", " ", "E", "n", "g", "l", "i", "s", "h", ".">>

\* transcribe of the older WhisperService from the engine's result on:
\* trim, remove the prompt when a language is set, return
FinishTranscribeOlder(result, hasPrompt) ==
    LET transcription == Trim(result)
    IN [status |-> "returned",
        text |-> IF hasPrompt
                 THEN Trim(ReplaceFirst(transcription, OlderEnglishPrompt))
                 ELSE transcription]

(***************************************************************************)
(* The chat screens                                                        *)
(***************************************************************************)
\* category screens App mounts in one run
MaxMounts == 2

\* the category screens whose source is modelled
ScreenKinds == {"general", "education", "health", "legal"}

\* GeneralScreen and LegalScreen keep a chat history in ChatHistoryService
Persists(kind) == kind \in {"general", "legal"}

Greeting == <<"w">>
UserText == Hello
SystemPrompt == <<"s">>
\* 'Sorry, error occurred.' / 'Sorry, I encountered an error. ...'
ErrorText(kind) == IF kind = "education" THEN <<"S", "e">> ELSE <<"S">>

\* initialMessages
InitialMessages == << Msg(1, "assistant", Greeting) >>

\* the state a handler sees: messages and currentChatId of the render
\* that created it
NoClosure == [messages |-> <<>>, currentChatId |-> 0]
Closure(scr) ==
    [messages |-> scr.messages, currentChatId |-> scr.currentChatId]

\* what App renders when no category screen is mounted
Plain(kind) ==
    [kind |-> kind, inst |-> 0, messages |-> <<>>,
     isGenerating |-> FALSE, currentChatId |-> 0,
     showQuickQuestions |-> FALSE,
     isTranscribing |-> FALSE, heard |-> NoClosure, voiceCall |-> 0,
     audio |-> "none"]

\* the useState initial values of a category screen
Mount(kind, inst) ==
    [kind |-> kind, inst |-> inst, messages |-> InitialMessages,
     isGenerating |-> FALSE, currentChatId |-> 0,
     showQuickQuestions |-> TRUE,
     isTranscribing |-> FALSE, heard |-> NoClosure, voiceCall |-> 0,
     audio |-> "none"]

\* saveCurrentChat leaving the greeting out of what it stores
SaveCurrentChatWithoutGreeting(scr, st) ==
    IF Persists(scr.kind) /\ Len(scr.messages) > 1 /\ scr.currentChatId # 0
    THEN [files |-> UpdateMessages(st.files, scr.kind, scr.currentChatId,
                                   Tail(scr.messages), st.clock, TRUE),
          clock |-> IF GetChat(st.files, scr.kind, scr.currentChatId, TRUE)
                       # <<>>
                    THEN st.clock + 1 ELSE st.clock]
    ELSE st

\* useEffect(..., [messages]) -> saveCurrentChat: the save a change of
\* messages triggers; st is the pair of files and clock
SaveCurrentChat(scr, st) ==
    IF Persists(scr.kind) /\ Len(scr.messages) > 1 /\ scr.currentChatId # 0
    THEN [files |-> UpdateMessages(st.files, scr.kind, scr.currentChatId,
                                   scr.messages, st.clock, TRUE),
          clock |-> IF GetChat(st.files, scr.kind, scr.currentChatId, TRUE)
                       # <<>>
                    THEN st.clock + 1 ELSE st.clock]
    ELSE st

\* prev.map(msg => msg.id === id ? { ...msg, content } : msg)
SetContentById(messages, id, content) ==
    [i \in 1..Len(messages) |->
        IF messages[i].id = id
        THEN [messages[i] EXCEPT !.content = content]
        ELSE messages[i]]

\* updated[updated.length - 1] = { ...updated[updated.length - 1], content }
SetContentOfLast(messages, content) ==
    [messages EXCEPT ![Len(messages)] = [@ EXCEPT !.content = content]]

\* the onToken closure of handleSendText: fullResponse += token, then
\* setMessages; the closure's fullResponse is what onToken received so far
ScreenOnToken(scr, c) ==
    IF scr.kind = "general"
    THEN [scr EXCEPT !.messages = SetContentOfLast(@, Flatten(c.forwarded))]
    ELSE [scr EXCEPT !.messages =
                        SetContentById(@, c.amid, Flatten(c.forwarded))]

\* the catch block of handleSendText
ScreenOnError(scr, c) ==
    IF scr.kind = "general" THEN scr
    ELSE [scr EXCEPT !.messages =
                        SetContentById(@, c.amid, ErrorText(scr.kind))]

\* isGenerating cleared only once the last message has some content
ScreenFinallyWhenAnswered(scr) ==
    IF scr.messages[Len(scr.messages)].content # <<>>
    THEN [scr EXCEPT !.isGenerating = FALSE]
    ELSE scr

\* the finally block of handleSendText
ScreenFinally(scr) == [scr EXCEPT !.isGenerating = FALSE]

\* createNewChat()
CreateNewChatState(scr) ==
    [scr EXCEPT !.messages = InitialMessages,
                !.showQuickQuestions = TRUE,
                !.currentChatId = 0]

\* the end of handleAudioRecorded once the handleSendText it awaited
\* (call i) has ended: RNFS.unlink(audioPath), then the finally block
VoiceFinally(scr, i) ==
    IF i # 0 /\ scr.voiceCall = i
    THEN [scr EXCEPT !.isTranscribing = FALSE, !.voiceCall = 0,
                     !.heard = NoClosure, !.audio = "deleted"]
    ELSE scr

\* the list built from the messages state after the user message was
\* appended to it
LlmMessagesAfterAppend(kind, messages, text) ==
    LET shown == Append(messages, Msg(Len(messages) + 1, "user", text))
        history == IF kind = "general" THEN shown
                   ELSE SubSeq(shown, 2, Len(shown))
    IN << [role |-> "system", content |-> SystemPrompt] >>
       \o [i \in 1..Len(history) |->
              [role |-> history[i].type, content |-> history[i].content]]
       \o << [role |-> "user", content |-> text] >>

\* the messages handed to generateResponse: the system prompt, the history
\* of the render (GeneralScreen: all of it, the others: messages.slice(1)),
\* the new user text
LlmMessages(kind, messages, text) ==
    LET history == IF kind = "general" THEN messages
                   ELSE SubSeq(messages, 2, Len(messages))
    IN << [role |-> "system", content |-> SystemPrompt] >>
       \o [i \in 1..Len(history) |->
              [role |-> history[i].type, content |-> history[i].content]]
       \o << [role |-> "user", content |-> text] >>

\* the component still mounted that started call c
Mounted(c) == c.owner # 0 /\ c.owner = screen.inst

(***************************************************************************)
(* Initial state                                                           *)
(***************************************************************************)
InitGen ==
    /\ llm = NewLLM
    /\ calls = <<>>
    /\ whisper = NewLLM
    /\ stt = NoTranscribe
    /\ screen = Plain("splash")
    /\ mounts = 0

FinIdle == [buf |-> <<>>, hit |-> FALSE, out |-> <<>>, done |-> FALSE]

\* no function is being applied on its own
PureIdle == [fn |-> "none", arg |-> <<>>, out |-> <<>>, done |-> FALSE]

Init == InitStore /\ InitGen /\ fin = FinIdle /\ pure = PureIdle

(***************************************************************************)
(* The native engine, as LLMService and the screens see it                 *)
(***************************************************************************)
\* the engine streams one more fragment of a running completion
EngineToken(i, token) ==
    /\ i \in Running
    /\ Streamed(Len(calls)) < MaxTokens
    /\ Len(calls[i].emitted) < calls[i].request.n_predict
    /\ LET c == OnData([calls[i] EXCEPT !.emitted = Append(@, token)], token)
           shown == Mounted(c) /\ c.hasOnToken
           scr == IF shown THEN ScreenOnToken(screen, c) ELSE screen
           st == IF shown
                 THEN SaveCurrentChat(scr, [files |-> files, clock |-> clock])
                 ELSE [files |-> files, clock |-> clock]
       IN /\ calls' = [calls EXCEPT ![i] = c]
          /\ screen' = scr
          /\ files' = st.files
          /\ clock' = st.clock
    /\ UNCHANGED <<nextId, opsUsed, lastOp, llm, whisper, stt, mounts, fin, pure, saves>>

\* the completion promise resolves
EngineResolve(i, hasTimings) ==
    /\ i \in Running
    /\ calls' = [calls EXCEPT ![i] = OnResolved(calls[i], hasTimings)]
    /\ screen' = IF Mounted(calls[i])
                 THEN VoiceFinally(ScreenFinally(screen), i)
                 ELSE screen
    /\ UNCHANGED <<storeVars, llm, whisper, stt, mounts, fin, pure, saves>>

\* the completion promise rejects
EngineReject(i) ==
    /\ i \in Running
    /\ LET c == OnRejected(calls[i], "engine")
           scr == IF Mounted(c)
                  THEN VoiceFinally(ScreenFinally(ScreenOnError(screen, c)),
                                    i)
                  ELSE screen
           st == IF Mounted(c) /\ screen.kind # "general"
                 THEN SaveCurrentChat(scr, [files |-> files, clock |-> clock])
                 ELSE [files |-> files, clock |-> clock]
       IN /\ calls' = [calls EXCEPT ![i] = c]
          /\ screen' = scr
          /\ files' = st.files
          /\ clock' = st.clock
    /\ UNCHANGED <<nextId, opsUsed, lastOp, llm, whisper, stt, mounts, fin, pure, saves>>

(***************************************************************************)
(* App and the screens                                                     *)
(***************************************************************************)
\* checkAppState: the models are found and both services initialize, or the
\* download screen is shown
CheckAppState(ok) ==
    /\ screen.kind = "splash"
    /\ llm' = InitializeService(llm, ok)
    /\ whisper' = InitializeService(whisper, ok)
    /\ screen' = Plain(IF ok THEN "home" ELSE "download")
    /\ UNCHANGED <<storeVars, calls, stt, mounts, fin, pure, saves>>

\* handleModelsDownloaded: fresh services are initialized, then home
ModelsDownloaded(ok) ==
    /\ screen.kind = "download"
    /\ llm' = InitializeService(NewLLM, ok)
    /\ whisper' = InitializeService(NewLLM, ok)
    /\ screen' = Plain("home")
    /\ UNCHANGED <<storeVars, calls, stt, mounts, fin, pure, saves>>

\* handleCategorySelect, and renderScreen's test of the services
SelectCategory(kind) ==
    /\ screen.kind = "home"
    /\ IsReady(llm) /\ IsReady(whisper)
    /\ mounts < MaxMounts
    /\ mounts' = mounts + 1
    /\ screen' = Mount(kind, mounts + 1)
    /\ UNCHANGED <<storeVars, llm, calls, whisper, stt, fin, pure, saves>>

\* handleBack: the category screen is unmounted, its state is gone
HandleBack ==
    /\ screen.kind \in ScreenKinds
    /\ screen' = Plain("home")
    /\ UNCHANGED <<storeVars, llm, calls, whisper, stt, mounts, fin, pure, saves>>

\* handleSendText(text, isVoice) of the render whose state is closure:
\* the message ids and the history come from closure.messages, the test
\* for a new chat from closure.currentChatId; createOk is whether
\* ChatHistoryService.createChat resolves (its rejection is caught and
\* logged, and the turn goes on without a chat id)
SendTextWith(closure, text, isVoice, createOk) ==
    /\ Len(calls) < MaxCalls
    /\ LET kind == screen.kind
           n == Len(closure.messages)
           st0 == [files |-> files, clock |-> clock]
           \* setMessages(prev => [...prev, userMessage]); setIsGenerating
           scr1 == [screen EXCEPT
                      !.messages = Append(@, Msg(n + 1, "user", text)),
                      !.showQuickQuestions = FALSE,
                      !.isGenerating = TRUE]
           st1 == SaveCurrentChat(scr1, st0)
           \* if (!currentChatId) createChat(...), setCurrentChatId
           attempts == Persists(kind) /\ closure.currentChatId = 0
           creates == attempts /\ createOk
           chat == NewChat(nextId, kind, text, st1.clock)
           st2 == IF creates
                  THEN [files |-> SaveChat(st1.files, chat, st1.clock, TRUE),
                        clock |-> st1.clock + 1]
                  ELSE st1
           \* the assistant placeholder
           scr2 == [scr1 EXCEPT
                      !.currentChatId = IF creates THEN nextId ELSE @,
                      !.voiceCall = IF isVoice THEN Len(calls) + 1 ELSE @,
                      !.messages = Append(@, Msg(n + 2, "assistant", <<>>))]
           st3 == SaveCurrentChat(scr2, st2)
           c == [StartCall(llm, screen.inst, n + 2,
                           LlmMessages(kind, closure.messages, text),
                           TRUE, FALSE)
                   EXCEPT !.session = scr2.currentChatId]
           \* a synchronous throw of generateResponse: catch, finally
           scr3 == IF c.status = "rejected"
                   THEN VoiceFinally(ScreenFinally(ScreenOnError(scr2, c)),
                                     Len(calls) + 1)
                   ELSE scr2
           st4 == IF c.status = "rejected" /\ kind # "general"
                  THEN SaveCurrentChat(scr3, st3)
                  ELSE st3
       IN /\ calls' = Append(calls, c)
          /\ screen' = scr3
          /\ files' = st4.files
          /\ clock' = st4.clock
          /\ nextId' = IF attempts THEN nextId + 1 ELSE nextId
    /\ UNCHANGED <<opsUsed, lastOp, llm, whisper, stt, mounts, fin, pure, saves>>

\* handleSendText with a storage that takes the new chat
SendText(closure, text, isVoice) == SendTextWith(closure, text, isVoice, TRUE)

\* handleSend -> handleSendText(text) of the current render; the send
\* button is disabled while isGenerating or isTranscribing
HandleSendText(text) ==
    /\ screen.kind \in ScreenKinds
    /\ ~screen.isGenerating
    /\ ~screen.isTranscribing
    /\ SendText(Closure(screen), text, FALSE)

\* handleSend -> handleSendText(text) on a screen with no chat yet, when
\* createChat rejects
HandleSendTextUnsaved(text) ==
    /\ Persists(screen.kind)
    /\ screen.currentChatId = 0
    /\ ~screen.isGenerating
    /\ ~screen.isTranscribing
    /\ SendTextWith(Closure(screen), text, FALSE, FALSE)

\* a quick-question card of GeneralScreen -> handleSendText(question.text,
\* false); the cards are rendered while showQuickQuestions and
\* messages.length <= 1, and disabled only while isGenerating
QuickQuestion ==
    /\ screen.kind = "general"
    /\ screen.showQuickQuestions
    /\ Len(screen.messages) <= 1
    /\ ~screen.isGenerating
    /\ SendText(Closure(screen), UserText, FALSE)

\* the microphone of GeneralScreen -> handleAudioRecorded: setIsTranscribing,
\* then await whisperService.transcribe; the handler keeps the
\* handleSendText of the render it was created in
AudioRecorded ==
    /\ screen.kind = "general"
    /\ ~screen.isGenerating
    /\ ~screen.isTranscribing
    /\ screen' = [screen EXCEPT !.isTranscribing = TRUE,
                                !.heard = Closure(screen),
                                !.audio = "recorded"]
    /\ UNCHANGED <<storeVars, llm, calls, whisper, stt, mounts, fin, pure, saves>>

\* whisperService.transcribe resolves in handleAudioRecorded: a non-blank
\* transcription goes to the handler's handleSendText(transcription, true),
\* a blank one to the alert, RNFS.unlink(audioPath) and the finally block
TranscriptionSettled(text) ==
    /\ screen.kind = "general"
    /\ screen.isTranscribing
    /\ screen.voiceCall = 0
    /\ IF text # <<>>
       THEN SendText(screen.heard, text, TRUE)
       ELSE /\ screen' = [screen EXCEPT !.isTranscribing = FALSE,
                                        !.heard = NoClosure,
                                        !.audio = "deleted"]
            /\ UNCHANGED <<storeVars, llm, calls, whisper, stt, mounts,
                           fin, pure, saves>>

\* whisperService.transcribe rejects in handleAudioRecorded (the recording
\* fails validateAudioFile, the engine throws, no speech is found): the
\* catch block and the finally block; the audio file stays
TranscriptionRejected ==
    /\ screen.kind = "general"
    /\ screen.isTranscribing
    /\ screen.voiceCall = 0
    /\ screen' = [screen EXCEPT !.isTranscribing = FALSE,
                                !.heard = NoClosure,
                                !.audio = "left"]
    /\ UNCHANGED <<storeVars, llm, calls, whisper, stt, mounts,
                   fin, pure, saves>>

\* the new-chat button of the history list of GeneralScreen ->
\* createNewChat(); the history button is never disabled
CreateNewChat ==
    /\ screen.kind = "general"
    /\ screen # CreateNewChatState(screen)
    /\ opsUsed < MaxLoads
    /\ opsUsed' = opsUsed + 1
    /\ screen' = CreateNewChatState(screen)
    /\ UNCHANGED <<files, clock, nextId, lastOp, llm, calls, whisper, stt,
                   mounts, fin, pure, saves>>

\* a row of the history list of GeneralScreen -> loadChat(chatId), then the
\* save the change of messages triggers; the history button is never
\* disabled
LoadChat(id) ==
    /\ screen.kind = "general"
    /\ opsUsed < MaxLoads
    /\ opsUsed' = opsUsed + 1
    /\ LET found == GetChat(files, "general", id, TRUE)
       IN /\ found # <<>>
          /\ LET chat == found[1]
                 scr == [screen EXCEPT
                           !.messages = IF Len(chat.messages) > 0
                                        THEN chat.messages
                                        ELSE InitialMessages,
                           !.currentChatId = chat.id,
                           !.showQuickQuestions = (Len(chat.messages) = 0)]
                 st == SaveCurrentChat(scr, [files |-> files,
                                             clock |-> clock])
             IN /\ scr # screen
                /\ screen' = scr
                /\ files' = st.files
                /\ clock' = st.clock
    /\ UNCHANGED <<nextId, lastOp, llm, calls, whisper, stt, mounts,
                   fin, pure, saves>>

Next ==
    \/ \E ok \in BOOLEAN : CheckAppState(ok)
    \/ \E ok \in BOOLEAN : ModelsDownloaded(ok)
    \/ \E kind \in ScreenKinds : SelectCategory(kind)
    \/ HandleBack
    \/ HandleSendText(UserText)
    \/ \E i \in 1..Len(calls), token \in Tokens : EngineToken(i, token)
    \/ \E i \in 1..Len(calls) : EngineResolve(i, TRUE)
    \/ \E i \in 1..Len(calls) : EngineReject(i)

Spec == Init /\ [][Next]_vars

\* GeneralScreen with its quick questions, voice input and chat history
NextVoice ==
    \/ Next
    \/ QuickQuestion
    \/ AudioRecorded
    \/ \E text \in {<<>>, UserText} : TranscriptionSettled(text)
    \/ TranscriptionRejected
    \/ \E id \in 1..MaxIds : LoadChat(id)
    \/ CreateNewChat

SpecVoice == Init /\ [][NextVoice]_vars

\* the turns of the screens, typed and spoken, from submission to the
\* settling of the promises they await
NextIdle ==
    \/ \E ok \in BOOLEAN : CheckAppState(ok)
    \/ \E ok \in BOOLEAN : ModelsDownloaded(ok)
    \/ \E kind \in ScreenKinds : SelectCategory(kind)
    \/ HandleBack
    \/ HandleSendText(UserText)
    \/ HandleSendTextUnsaved(UserText)
    \/ AudioRecorded
    \/ \E text \in {<<>>, UserText} : TranscriptionSettled(text)
    \/ TranscriptionRejected
    \/ \E i \in 1..Len(calls) : EngineResolve(i, TRUE)
    \/ \E i \in 1..Len(calls) : EngineReject(i)

\* every completion promise settles, and so does every transcription
\* promise
PromisesSettle ==
    /\ \A i \in 1..MaxCalls :
          WF_vars(EngineResolve(i, TRUE) \/ EngineReject(i))
    /\ WF_vars((\E text \in {<<>>, UserText} : TranscriptionSettled(text))
               \/ TranscriptionRejected)

SpecIdle == Init /\ [][NextIdle]_vars /\ PromisesSettle

(***************************************************************************)
(* LLMService and WhisperService driven directly                           *)
(***************************************************************************)
\* llm.initialize()
LLMInitialize(ok) ==
    /\ llm' = InitializeService(llm, ok)
    /\ UNCHANGED <<storeVars, calls, whisper, stt, screen, mounts, fin, pure, saves>>

\* llm.release()
LLMRelease(ok) ==
    /\ llm' = ReleaseService(llm, ok)
    /\ UNCHANGED <<storeVars, calls, whisper, stt, screen, mounts, fin, pure, saves>>

\* llm.generateResponse(messages, onToken?, onComplete?), by a caller that
\* awaits each call before it makes the next; only the latest is kept
GenerateResponse(hasOnToken, hasOnComplete) ==
    /\ Running = {}
    /\ calls' = << StartCall(llm, 0, 0,
                             LlmMessages("general", <<>>, UserText),
                             hasOnToken, hasOnComplete) >>
    /\ UNCHANGED <<storeVars, llm, whisper, stt, screen, mounts, fin, pure, saves>>

\* llm.stopGeneration(): context.stopCompletion() asks the engine to stop
\* the running completion; stopAt keeps how many fragments had arrived
StopGeneration ==
    /\ llm.context
    /\ calls' = [i \in 1..Len(calls) |->
                    IF calls[i].status = "running" /\ calls[i].stopAt = -1
                    THEN [calls[i] EXCEPT !.stopAt = Len(calls[i].emitted)]
                    ELSE calls[i]]
    /\ UNCHANGED <<storeVars, llm, whisper, stt, screen, mounts, fin, pure, saves>>

\* whisper.initialize()
WhisperInitialize(ok) ==
    /\ whisper' = InitializeService(whisper, ok)
    /\ UNCHANGED <<storeVars, llm, calls, stt, screen, mounts, fin, pure, saves>>

\* whisper.release()
WhisperRelease(ok) ==
    /\ whisper' = ReleaseService(whisper, ok)
    /\ UNCHANGED <<storeVars, llm, calls, stt, screen, mounts, fin, pure, saves>>

\* whisper.transcribe(audioPath, options)
Transcribe(fileExists, size, heard) ==
    /\ stt' = TranscribeCall(whisper, fileExists, size, heard)
    /\ UNCHANGED <<storeVars, llm, calls, whisper, screen, mounts, fin, pure, saves>>

NextLLM ==
    \/ \E ok \in BOOLEAN : LLMInitialize(ok)
    \/ \E ok \in BOOLEAN : LLMRelease(ok)
    \/ \E t, d \in BOOLEAN : GenerateResponse(t, d)
    \/ \E i \in 1..Len(calls), token \in Tokens : EngineToken(i, token)
    \/ \E i \in 1..Len(calls), tm \in BOOLEAN : EngineResolve(i, tm)
    \/ \E i \in 1..Len(calls) : EngineReject(i)
    \/ StopGeneration
    \/ \E ok \in BOOLEAN : WhisperInitialize(ok)
    \/ \E ok \in BOOLEAN : WhisperRelease(ok)
    \/ \E e \in BOOLEAN, size \in AudioSizes,
          heard \in {"text", "noSpeech", "engineError"} :
            Transcribe(e, size, heard)

SpecLLM == Init /\ [][NextLLM]_vars

SpecStore == Init /\ [][NextStore]_vars

SpecStoreIO == Init /\ [][NextStoreIO]_vars

(***************************************************************************)
(* The text generateResponse returns, as a function of the stream buffer   *)
(***************************************************************************)
\* longest stream buffer tried
MaxBuf == 5

BufChars == {"a", ".", " "}

BufInputs == UNION { [1..n -> BufChars] : n \in 0..MaxBuf }

\* a stream ended with buffer buf; hit says whether the engine stopped
\* because the output ceiling was reached
InitFinal ==
    /\ InitStore
    /\ InitGen
    /\ fin \in { [buf |-> b, hit |-> h, out |-> <<>>, done |-> FALSE] :
                    b \in BufInputs, h \in BOOLEAN }
    /\ pure = PureIdle

\* the lines of generateResponse that follow the await of the completion
Finalize ==
    /\ ~fin.done
    /\ fin' = [fin EXCEPT !.out = FinalText(fin.buf), !.done = TRUE]
    /\ UNCHANGED <<storeVars, genVars, pure, saves>>

NextFinal == Finalize

SpecFinal == InitFinal /\ [][NextFinal]_vars

(***************************************************************************)
(* The message list handleSendText hands to generateResponse, as a         *)
(* function of the conversation of the render                              *)
(***************************************************************************)
\* completed turns of the conversations tried
MaxTurns == 2

\* a text of n characters
Text(n) == [i \in 1..n |-> "x"]

\* lengths of what the user sends (the TextInput has maxLength 500) and of
\* what the assistant answered
UserLengths == {2, 500}
AssistantLengths == {1, 6145}

\* the messages state after n completed turns, every turn a user message
\* and the assistant message that follows it
RECURSIVE Conversations(_)
Conversations(n) ==
    IF n = 0 THEN { InitialMessages }
    ELSE { m \o << Msg(Len(m) + 1, "user", Text(u)),
                   Msg(Len(m) + 2, "assistant", Text(a)) >> :
              m \in Conversations(n - 1),
              u \in UserLengths, a \in AssistantLengths }

ConversationInputs == UNION { Conversations(n) : n \in 0..MaxTurns }

InitPrompt ==
    /\ InitStore
    /\ InitGen
    /\ fin = FinIdle
    /\ pure \in { [fn |-> "llmMessages",
                   arg |-> [kind |-> k, messages |-> m, text |-> Text(u)],
                   out |-> <<>>, done |-> FALSE] :
                    k \in ScreenKinds, m \in ConversationInputs,
                    u \in UserLengths }

\* const llmMessages = [...]
BuildLlmMessages ==
    /\ pure.fn = "llmMessages" /\ ~pure.done
    /\ pure' = [pure EXCEPT
                  !.out = LlmMessages(pure.arg.kind, pure.arg.messages,
                                      pure.arg.text),
                  !.done = TRUE]
    /\ UNCHANGED <<storeVars, genVars, fin, saves>>

NextPrompt == BuildLlmMessages

SpecPrompt == InitPrompt /\ [][NextPrompt]_vars

(***************************************************************************)
(* createChat on first messages of every length around maxLength           *)
(***************************************************************************)
\* longest first message tried
MaxFirstMessage == 45

Alphabet == <<"a", "b", "c", "d", "e", "f", "g">>

\* a message of n characters that starts at letter p of the alphabet
Letters(n, p) == [i \in 1..n |-> Alphabet[((i + p) % Len(Alphabet)) + 1]]

FirstMessageInputs ==
    { Letters(n, p) : n \in 0..MaxFirstMessage, p \in 0..2 }

InitTitle ==
    /\ InitStore
    /\ InitGen
    /\ fin = FinIdle
    /\ pure \in { [fn |-> "createChat", arg |-> m, out |-> <<>>,
                   done |-> FALSE] : m \in FirstMessageInputs }

\* createChat('general', initialMessage, language); out is the title of
\* the chat it returns
CreateTitledChat ==
    /\ pure.fn = "createChat" /\ ~pure.done
    /\ CreateChatFrom("general", pure.arg)
    /\ pure' = [pure EXCEPT !.out = GenerateTitle(pure.arg), !.done = TRUE]
    /\ UNCHANGED <<genVars, fin, saves>>

NextTitle == CreateTitledChat

SpecTitle == InitTitle /\ [][NextTitle]_vars

(***************************************************************************)
(* validateAudioFile on file sizes around its two limits                   *)
(***************************************************************************)
\* how far from each limit the sizes tried reach
MaxSizeOffset == 125

\* stat.size values: around 5000 bytes and 5 * 1024 bytes, and around
\* 50 * 1024 * 1024 bytes
AudioSizeInputs ==
    (5000 - 5)..(5000 + MaxSizeOffset)
        \cup (52428800 - 5)..(52428800 + 5)

InitAudio ==
    /\ InitStore
    /\ InitGen
    /\ fin = FinIdle
    /\ pure \in { [fn |-> "validateAudioFile",
                   arg |-> [size |-> n, statOk |-> ok],
                   out |-> <<>>, done |-> FALSE] :
                    n \in AudioSizeInputs, ok \in BOOLEAN }

\* validateAudioFile(audioPath): false when RNFS.stat throws
ValidateAudio ==
    /\ pure.fn = "validateAudioFile" /\ ~pure.done
    /\ pure' = [pure EXCEPT
                  !.out = << pure.arg.statOk
                             /\ ValidateAudioFile(pure.arg.size) >>,
                  !.done = TRUE]
    /\ UNCHANGED <<storeVars, genVars, fin, saves>>

NextAudio == ValidateAudio

SpecAudio == InitAudio /\ [][NextAudio]_vars

(***************************************************************************)
(* cleanTranscription and the end of transcribe on engine results          *)
(***************************************************************************)
\* words in the engine results tried
MaxWords == 5

\* the words the engine results are made of
Words ==
    { <<"g", "o">>, <<"g", "o", "n", "e">>, <<"n", "o", "w">>,
      <<"t", "r", "y">> }

\* results of silence, of music, and results that repeat the prompt
SpecialResults ==
    { <<" ">>, <<"m", "u", "s", "i", "c">>, <<" ", "m", "u", "s", "i", "c">>,
      EnglishPrompt, EnglishPrompt \o <<" ", "g", "o">>,
      OlderEnglishPrompt }

\* the words of ws with one space between them
RECURSIVE Join(_)
Join(ws) ==
    IF ws = <<>> THEN <<>>
    ELSE IF Len(ws) = 1 THEN ws[1]
    ELSE ws[1] \o <<" ">> \o Join(Tail(ws))

ResultInputs ==
    { Join(ws) : ws \in UNION { [1..n -> Words] : n \in 0..MaxWords } }
        \cup SpecialResults

PromptInputs == { <<>>, EnglishPrompt }

InitTranscript ==
    /\ InitStore
    /\ InitGen
    /\ fin = FinIdle
    /\ pure \in { [fn |-> f, arg |-> [text |-> t, prompt |-> p],
                   out |-> <<>>, done |-> FALSE] :
                    f \in {"cleanTranscription", "transcribe",
                           "transcribeOlder"},
                    t \in ResultInputs, p \in PromptInputs }

\* this.cleanTranscription(transcription, prompt)
CleanStep ==
    /\ pure.fn = "cleanTranscription" /\ ~pure.done
    /\ pure' = [pure EXCEPT
                  !.out = CleanTranscription(pure.arg.text, pure.arg.prompt),
                  !.done = TRUE]
    /\ UNCHANGED <<storeVars, genVars, fin, saves>>

\* transcribe, after the engine's promise resolved with result
FinishStep ==
    /\ pure.fn = "transcribe" /\ ~pure.done
    /\ pure' = [pure EXCEPT
                  !.out = FinishTranscribe(pure.arg.text, pure.arg.prompt),
                  !.done = TRUE]
    /\ UNCHANGED <<storeVars, genVars, fin, saves>>

\* transcribe of the older WhisperService, after the engine's promise
\* resolved with result
FinishOlderStep ==
    /\ pure.fn = "transcribeOlder" /\ ~pure.done
    /\ pure' = [pure EXCEPT
                  !.out = FinishTranscribeOlder(pure.arg.text,
                                                pure.arg.prompt # <<>>),
                  !.done = TRUE]
    /\ UNCHANGED <<storeVars, genVars, fin, saves>>

NextTranscript == CleanStep \/ FinishStep \/ FinishOlderStep

SpecTranscript == InitTranscript /\ [][NextTranscript]_vars

(***************************************************************************)
(* GeneralScreen and ChatHistoryService with the store operations taken    *)
(* await by await: an operation the screen does not wait for stays in      *)
(* saves between its reads and its write, and the operations in saves      *)
(* advance in any order                                                    *)
(***************************************************************************)
\* store operations between their awaits at one time
MaxInFlight == 2
\* chats deleted from the history list in one behaviour
MaxDeletes == 1

\* updateChatMessages(service, id, messages) at its first await
NewUpdate(service, id, messages) ==
    [op |-> "update", service |-> service, id |-> id, messages |-> messages,
     pc |-> "getChat", chat |-> <<>>, chats |-> <<>>,
     owner |-> 0, shownId |-> 0]

\* GeneralScreen.deleteChat(chatId) at the first await of
\* ChatHistoryService.deleteChat; shownId is the currentChatId of the render
NewDelete(service, id, owner, shownId) ==
    [op |-> "delete", service |-> service, id |-> id, messages |-> <<>>,
     pc |-> "read", chat |-> <<>>, chats |-> <<>>,
     owner |-> owner, shownId |-> shownId]

\* useEffect(..., [messages]) -> saveCurrentChat(): the save a change of
\* messages starts; nobody awaits it
StartSave(scr) ==
    IF Persists(scr.kind) /\ Len(scr.messages) > 1 /\ scr.currentChatId # 0
    THEN << NewUpdate(scr.kind, scr.currentChatId, scr.messages) >>
    ELSE <<>>

Remove(s, k) == SubSeq(s, 1, k - 1) \o SubSeq(s, k + 1, Len(s))

\* handleSendText of GeneralScreen; createChat is awaited, the saves the
\* two changes of messages start are not
SendTextAsync(text) ==
    /\ screen.kind = "general"
    /\ ~screen.isGenerating
    /\ Len(calls) < MaxCalls
    /\ Len(saves) + 2 <= MaxInFlight
    /\ LET n == Len(screen.messages)
           scr1 == [screen EXCEPT
                      !.messages = Append(@, Msg(n + 1, "user", text)),
                      !.showQuickQuestions = FALSE,
                      !.isGenerating = TRUE]
           creates == screen.currentChatId = 0
           chat == NewChat(nextId, "general", text, clock)
           scr2 == [scr1 EXCEPT
                      !.currentChatId = IF creates THEN nextId ELSE @,
                      !.messages = Append(@, Msg(n + 2, "assistant", <<>>))]
           c == [StartCall(llm, screen.inst, n + 2,
                           LlmMessages("general", screen.messages, text),
                           TRUE, FALSE)
                   EXCEPT !.session = scr2.currentChatId]
       IN /\ calls' = Append(calls, c)
          /\ screen' = IF c.status = "rejected" THEN ScreenFinally(scr2)
                       ELSE scr2
          /\ files' = IF creates THEN SaveChat(files, chat, clock, TRUE)
                      ELSE files
          /\ clock' = IF creates THEN clock + 1 ELSE clock
          /\ nextId' = IF creates THEN nextId + 1 ELSE nextId
          /\ saves' = saves \o StartSave(scr1) \o StartSave(scr2)
    /\ UNCHANGED <<opsUsed, lastOp, llm, whisper, stt, mounts, fin, pure>>

\* the engine streams one more fragment; the onToken closure changes
\* messages and the change starts a save
TokenAsync(i, token) ==
    /\ i \in Running
    /\ Streamed(Len(calls)) < MaxTokens
    /\ Len(saves) < MaxInFlight
    /\ LET c == OnData([calls[i] EXCEPT !.emitted = Append(@, token)], token)
           shown == Mounted(c) /\ c.hasOnToken
           scr == IF shown THEN ScreenOnToken(screen, c) ELSE screen
       IN /\ calls' = [calls EXCEPT ![i] = c]
          /\ screen' = scr
          /\ saves' = IF shown THEN saves \o StartSave(scr) ELSE saves
    /\ UNCHANGED <<storeVars, llm, whisper, stt, mounts, fin, pure>>

\* the delete button of a row of the history list -> deleteChat(chatId)
DeleteChatPressed(id) ==
    /\ screen.kind = "general"
    /\ id \in IdsOf(files["general"].chats)
    /\ opsUsed < MaxDeletes
    /\ Len(saves) < MaxInFlight
    /\ opsUsed' = opsUsed + 1
    /\ saves' = Append(saves, NewDelete("general", id, screen.inst,
                                        screen.currentChatId))
    /\ UNCHANGED <<files, clock, nextId, lastOp, genVars, fin, pure>>

\* one store operation goes on to its next await:
\*   update: getChat, then saveChat's getAllChats, then RNFS.writeFile
\*   delete: getAllChats, then RNFS.writeFile, then deleteChat of the
\*           screen goes on to createNewChat() if it showed the deleted chat
StoreStep(k) ==
    /\ k \in 1..Len(saves)
    /\ LET s == saves[k]
           existing == GetAllChats(files, s.service, TRUE)
           found == GetChat(files, s.service, s.id, TRUE)
           merged == Upsert(existing, s.chat[1], clock)
       IN CASE s.pc = "getChat" ->
                 /\ saves' = IF found = <<>> THEN Remove(saves, k)
                             ELSE [saves EXCEPT ![k] =
                                     [s EXCEPT
                                        !.chat = << [found[1] EXCEPT
                                                       !.messages = s.messages,
                                                       !.updatedAt = clock] >>,
                                        !.pc = "saveChat"]]
                 /\ UNCHANGED <<files, clock, lastOp, screen>>
            [] s.pc = "saveChat" ->
                 /\ saves' = [saves EXCEPT ![k] =
                                [s EXCEPT
                                   !.chats = SubSeq(merged, 1,
                                                    Min(MaxChats,
                                                        Len(merged))),
                                   !.pc = "write"]]
                 /\ clock' = clock + 1
                 /\ UNCHANGED <<files, lastOp, screen>>
            [] s.pc = "read" ->
                 /\ saves' = [saves EXCEPT ![k] =
                                [s EXCEPT
                                   !.chats = FilterOut(existing, s.id),
                                   !.pc = "write"]]
                 /\ UNCHANGED <<files, clock, lastOp, screen>>
            [] s.pc = "write" ->
                 /\ files' = [files EXCEPT ![s.service] =
                                [exists |-> TRUE, chats |-> s.chats]]
                 /\ saves' = Remove(saves, k)
                 /\ lastOp' = IF s.op = "delete"
                              THEN [op |-> "delete", service |-> s.service,
                                    id |-> s.id, fault |-> FALSE,
                                    threw |-> FALSE]
                              ELSE lastOp
                 /\ screen' = IF /\ s.op = "delete"
                                 /\ s.owner = screen.inst
                                 /\ s.shownId = s.id
                              THEN CreateNewChatState(screen)
                              ELSE screen
                 /\ UNCHANGED clock
    /\ UNCHANGED <<nextId, opsUsed, llm, calls, whisper, stt, mounts,
                   fin, pure>>

NextSaves ==
    \/ CheckAppState(TRUE)
    \/ SelectCategory("general")
    \/ SendTextAsync(UserText)
    \/ \E i \in 1..Len(calls), token \in Tokens : TokenAsync(i, token)
    \/ \E i \in 1..Len(calls) : EngineResolve(i, TRUE)
    \/ \E id \in 1..MaxIds : DeleteChatPressed(id)
    \/ \E k \in 1..MaxInFlight : StoreStep(k)

SpecSaves == Init /\ [][NextSaves]_vars

(***************************************************************************)
(* Claims about ChatHistoryService                                         *)
(***************************************************************************)
Chats(s) == files[s].chats

\* C1: after any sequence of createChat, saveChat, updateChatMessages and
\* deleteChat calls, the persisted collection of every service holds at most
\* 50 sessions.
C1_AtMostFifty == \A s \in Services : Len(Chats(s)) <= MaxChats

\* the 51st createChat has run on a full collection and evicted a session
C1_Witness ==
    /\ lastOp.op = "create"
    /\ opsUsed = 0
    /\ lastOp.id > MaxChats
    /\ Len(Chats(lastOp.service)) = MaxChats
    /\ Cardinality(IdsOf(Chats(lastOp.service))) = MaxChats

\* C2: a createChat on a collection of 50 keeps the new session and evicts
\* the session least recently updated, also when earlier sessions were
\* updated after their creation.
C2_EvictsLeastRecentlyUpdated ==
    [][ (lastOp'.op = "create" /\ Len(Chats(lastOp'.service)) = MaxChats) =>
          LET before == Chats(lastOp'.service)
              after == files'[lastOp'.service].chats
          IN /\ Len(after) = MaxChats
             /\ lastOp'.id \in IdsOf(after)
             /\ \E i \in 1..Len(before) :
                   /\ before[i].id \notin IdsOf(after)
                   /\ \A j \in 1..Len(before) :
                         before[i].updatedAt <= before[j].updatedAt ]_vars

\* C3: after creates and appends, getAllChats returns the sessions ordered by
\* updatedAt descending, and an append makes the affected session the first
\* of the list.
C3_AppendMovesToFront ==
    (lastOp.op = "update" /\ opsUsed = 1
        /\ lastOp.id \in IdsOf(Chats(lastOp.service))) =>
       LET chats == GetAllChats(files, lastOp.service, TRUE)
       IN /\ chats[1].id = lastOp.id
          /\ \A i, j \in 1..Len(chats) :
                i < j => chats[i].updatedAt >= chats[j].updatedAt

(***************************************************************************)
(* Claims about LLMService, WhisperService and the screens                 *)
(***************************************************************************)
\* C4: at most one generation (engine completion call) is in flight at any
\* time on the shared LLMService, also across screens.
C4_OneGenerationInFlight == Cardinality(Running) <= 1

C6_CancelKeepsFirstK ==
    \A i \in 1..Len(calls) :
        LET c == calls[i]
        IN (c.stopAt >= 1 /\ c.status = "resolved") =>
              c.result = Trim(Flatten(SubSeq(c.emitted, 1, c.stopAt)))

\* C7: generateResponse on an LLMService that is not ready fails with the
\* not-initialized error without invoking the engine and without calling
\* onToken or onComplete; transcribe on a WhisperService that is not ready
\* fails without invoking the speech engine.
C7_NotReadyIsRejected ==
    /\ \A i \in 1..Len(calls) :
          LET c == calls[i]
          IN ~c.readyAtCall =>
                /\ c.status = "rejected"
                /\ c.error = NotInitializedError
                /\ c.engineCalls = 0
                /\ c.emitted = <<>> /\ c.forwarded = <<>>
                /\ c.completeCalls = 0
    /\ (stt.status # "none" /\ ~stt.readyAtCall) =>
          (stt.status = "notInitialized" /\ stt.engineCalls = 0)

\* generateResponse was called after a release, transcribe after a failed
\* initialize
C7_Witness ==
    /\ llm.phase = "released"
    /\ calls # <<>> /\ ~calls[1].readyAtCall
    /\ calls[1].hasOnToken /\ calls[1].hasOnComplete
    /\ whisper.phase = "failed" /\ ~IsReady(whisper)
    /\ stt.status = "notInitialized"

\* C8: when the engine fails in the middle of a stream, generateResponse
\* rejects with an error carrying the underlying message, no retry is
\* started, and the assistant message keeps the partial content that was
\* streamed, on every screen.
C8_PartialContentKept ==
    \A i \in 1..Len(calls) :
        LET c == calls[i]
        IN (c.status = "rejected" /\ c.emitted # <<>> /\ Mounted(c)) =>
              /\ c.error = GenerationError("engine")
              /\ c.engineCalls = 1
              /\ \E j \in 1..Len(screen.messages) :
                    /\ screen.messages[j].id = c.amid
                    /\ screen.messages[j].content = Flatten(c.forwarded)

\* n_predict as the documentation gives it (Sampling Parameters)
DocumentedCeiling == 256

\* C9: every generation request handed to the engine carries an output
\* ceiling of 256 tokens.
C9_CeilingIs256 ==
    \A i \in 1..Len(calls) :
        calls[i].engineCalls > 0 =>
            /\ calls[i].request.n_predict = DocumentedCeiling
            /\ Len(calls[i].emitted) <= DocumentedCeiling

\* sentence-terminal punctuation; "|" stands for the danda
Terminals == {".", "!", "?", "|"}

\* the positions of the final 30% of text t that hold a terminal
TailTerminals(t) ==
    {p \in 1..Len(t) : 10 * p > 7 * Len(t) /\ t[p] \in Terminals}

SetMax(S) == CHOOSE x \in S : \A y \in S : y <= x

\* C10: when the ceiling was hit and the buffer does not end on a terminal,
\* the returned text is cut back to the last terminal of the final 30% of
\* the buffer, and left as it is when that window holds none.
C10_CutBackToSentenceEnd ==
    fin.done =>
        LET t == Trim(fin.buf)
        IN (fin.hit /\ t # <<>> /\ t[Len(t)] \notin Terminals) =>
              IF TailTerminals(t) # {}
              THEN fin.out = SubSeq(t, 1, SetMax(TailTerminals(t)))
              ELSE fin.out = t

\* the context budget as the documentation gives it (Context Management)
ContextBudget == 1536

\* token estimation: 4 characters are about 1 token, rounded up
EstimateTokens(content) == (Len(content) + 3) \div 4

RECURSIVE SumTokens(_)
SumTokens(ms) ==
    IF ms = <<>> THEN 0
    ELSE EstimateTokens(Head(ms).content) + SumTokens(Tail(ms))

\* C11: the message list handed to the engine keeps the system message and
\* the order of the conversation, and the estimated tokens of its
\* conversation messages, the new user message left out, fit the budget.
C11_PromptWithinBudget ==
    (pure.fn = "llmMessages" /\ pure.done) =>
        LET out == pure.out
        IN /\ out[1].role = "system"
           /\ out[Len(out)].content = pure.arg.text
           /\ SumTokens(SubSeq(out, 2, Len(out) - 1)) <= ContextBudget

IsPrefix(a, b) == Len(a) <= Len(b) /\ a = SubSeq(b, 1, Len(a))

C13_AcceptedFrom5000 ==
    (pure.fn = "validateAudioFile" /\ pure.done /\ pure.arg.statOk) =>
        pure.out = << pure.arg.size >= 5000
                      /\ pure.arg.size <= 50 * 1024 * 1024 >>

\* C13, amended: a file is accepted exactly when its size can be read and
\* is at least 5*1024 bytes and at most 50*1024*1024 bytes.
C13_AcceptedFrom5KiB ==
    (pure.fn = "validateAudioFile" /\ pure.done) =>
        pure.out = << /\ pure.arg.statOk
                      /\ pure.arg.size >= 5 * 1024
                      /\ pure.arg.size <= 50 * 1024 * 1024 >>

\* a readable file of exactly 5*1024 bytes was validated and accepted
C13_Witness ==
    /\ pure.fn = "validateAudioFile" /\ pure.done
    /\ pure.arg.statOk /\ pure.arg.size = 5 * 1024
    /\ pure.out = <<TRUE>>

\* the words of a text: its maximal runs of characters other than spaces
RECURSIVE WordsOf(_)
WordsOf(s) ==
    LET t == TrimStart(s)
    IN IF t = <<>> THEN <<>>
       ELSE LET e == CHOOSE k \in 1..Len(t) :
                        /\ \A j \in 1..k : ~IsSpace(t[j])
                        /\ k = Len(t) \/ IsSpace(t[k + 1])
            IN <<SubSeq(t, 1, e)>> \o WordsOf(SubSeq(t, e + 1, Len(t)))

\* how many times the first word of ws stands at its head in a row
RECURSIVE RunLength(_)
RunLength(ws) ==
    IF Len(ws) >= 2 /\ ws[2] = ws[1] THEN 1 + RunLength(Tail(ws)) ELSE 1

\* runs of 4 or more equal words become one word, shorter runs stay
RECURSIVE CollapseRuns(_)
CollapseRuns(ws) ==
    IF ws = <<>> THEN <<>>
    ELSE LET n == RunLength(ws)
         IN (IF n >= 4 THEN <<ws[1]>> ELSE SubSeq(ws, 1, n))
               \o CollapseRuns(SubSeq(ws, n + 1, Len(ws)))

GoGoGoGoNow ==
    <<"g", "o", " ", "g", "o", " ", "g", "o", " ", "g", "o", " ",
      "n", "o", "w">>

\* C14: cleanTranscription turns a word repeated 4 or more times in a row
\* into one occurrence, leaves a word repeated 3 or fewer times as it is,
\* and keeps the rest of the text: "go go go go now" becomes "go now".
C14_RepeatsCollapsed ==
    (pure.fn = "cleanTranscription" /\ pure.done /\ pure.arg.prompt = <<>>)
        => /\ WordsOf(pure.out) = CollapseRuns(WordsOf(pure.arg.text))
           /\ pure.arg.text = GoGoGoGoNow =>
                 pure.out = <<"g", "o", " ", "n", "o", "w">>

\* C15: transcribe never returns an empty string: it returns the trimmed
\* raw transcript when cleaning leaves nothing, and raises the no-speech
\* error only when the raw transcript is empty after trimming.
C15_NeverReturnsEmpty ==
    (pure.fn \in {"transcribe", "transcribeOlder"} /\ pure.done) =>
        LET raw == Trim(pure.arg.text)
        IN /\ pure.out.status = "returned" => pure.out.text # <<>>
           /\ pure.out.status = "noSpeech" <=> raw = <<>>
           /\ (pure.fn = "transcribe" /\ raw # <<>>
                 /\ CleanTranscription(raw, pure.arg.prompt) = <<>>) =>
                 pure.out = [status |-> "returned", text |-> raw]

\* C16: a storage I/O failure in create, append, delete, list or get on
\* a collection whose file exists reaches the caller as an error; only an
\* absent file is taken for an empty collection.
C16_IoFailurePropagates ==
    [][ (lastOp'.fault /\ files[lastOp'.service].exists) =>
            lastOp'.threw ]_vars

\* what a collection holds, updatedAt aside: its sessions and their
\* message lists
Sessions(fs, service) ==
    { [id |-> fs[service].chats[i].id,
       messages |-> fs[service].chats[i].messages] :
          i \in 1..Len(fs[service].chats) }

\* the step repeats, with the same arguments, the operation before it,
\* which had returned without an error
Retried ==
    /\ lastOp.op \in {"create", "update", "delete"}
    /\ ~lastOp.threw
    /\ lastOp'.op = lastOp.op
    /\ lastOp'.service = lastOp.service
    /\ lastOp.op = "create" \/ lastOp'.id = lastOp.id

\* C17: repeating create, append or delete with the same arguments leaves
\* the collection with the sessions and message lists it had after the
\* first time.
C17_RetryIsIdempotent ==
    [][ Retried =>
           Sessions(files', lastOp.service) = Sessions(files, lastOp.service)
      ]_vars

\* C20: an operation on one service's collection leaves every other
\* service's collection as it was, and every session stored in a service's
\* collection has that service as its service field.
C20_ServicesKeptApart ==
    [][ /\ \A s \in Services \ {lastOp'.service} : files'[s] = files[s]
        /\ \A s \in Services : \A i \in 1..Len(files'[s].chats) :
              files'[s].chats[i].service = s ]_vars

\* a session was created for legal while general already held sessions
C20_Witness ==
    /\ lastOp.op = "create" /\ lastOp.service = "legal"
    /\ Len(Chats("general")) >= 2
    /\ Len(Chats("legal")) = 1
    /\ Chats("legal")[1].service = "legal"

\* the first turn of the mounted GeneralScreen has completed: the calls it
\* made, all resolved, and the session it wrote, <<>> when there is none
FirstTurnCalls ==
    { i \in 1..Len(calls) : calls[i].owner = screen.inst }

FirstTurnDone ==
    /\ screen.kind = "general"
    /\ ~screen.isGenerating
    /\ Len(screen.messages) = 3
    /\ FirstTurnCalls # {}
    /\ \A i \in FirstTurnCalls : calls[i].status = "resolved"

FirstTurnSession == GetChat(files, "general", screen.currentChatId, TRUE)

FirstTurnText ==
    Flatten(calls[CHOOSE i \in FirstTurnCalls : TRUE].forwarded)

C19_MessageIdsIncreasing ==
    screen.kind \in ScreenKinds =>
        \A i, j \in 1..Len(screen.messages) :
            i < j => screen.messages[i].id < screen.messages[j].id

(***************************************************************************)
(* Claims about the message list of a turn                                 *)
(***************************************************************************)
\* how many entries of the sequence ms satisfy Test
Occurrences(ms, Test(_)) == Cardinality({k \in 1..Len(ms) : Test(ms[k])})

\* C21: the message list handed to the engine for a turn starts with
\* exactly one system message and ends with the newly submitted user
\* message, which is in the list once more than the earlier user messages of
\* the same text are in the conversation: the new message itself is there
\* exactly once, whatever older history is included.
C21_OneSystemOneNewUserMessage ==
    (pure.fn = "llmMessages" /\ pure.done) =>
        LET out == pure.out
            text == pure.arg.text
        IN /\ Len(out) >= 2
           /\ out[1].role = "system"
           /\ Occurrences(out, LAMBDA m : m.role = "system") = 1
           /\ out[Len(out)] = [role |-> "user", content |-> text]
           /\ Occurrences(out, LAMBDA m : m.role = "user"
                                          /\ m.content = text)
                = 1 + Occurrences(pure.arg.messages,
                                  LAMBDA m : m.type = "user"
                                             /\ m.content = text)

\* a list built on a conversation of two completed turns, one of which
\* already holds a user message of the same text
C21_Witness ==
    /\ pure.fn = "llmMessages" /\ pure.done
    /\ Len(pure.arg.messages) = 1 + 2 * MaxTurns
    /\ Occurrences(pure.arg.messages,
                   LAMBDA m : m.type = "user"
                              /\ m.content = pure.arg.text) = 1
    /\ Len(pure.out) >= Len(pure.arg.messages) + 1

(***************************************************************************)
(* Claims about the life cycle of LLMService                               *)
(***************************************************************************)
\* C22: isReady() is true exactly when the latest initialize succeeded and
\* no release has succeeded since; a failed initialize never leaves the
\* instance ready.
C22_ReadyIffLatestInitializeSucceeded ==
    /\ IsReady(llm) <=> llm.phase = "ready"
    /\ llm.phase = "failed" => ~IsReady(llm)

(***************************************************************************)
(* Claims about store operations that overlap                              *)
(***************************************************************************)
\* the turns of the mounted GeneralScreen are over and no store operation
\* is between its awaits
TurnsSettled ==
    /\ screen.kind = "general"
    /\ screen.currentChatId # 0
    /\ calls # <<>>
    /\ \A i \in 1..Len(calls) : calls[i].status = "resolved"
    /\ saves = <<>>

\* C23: once a turn has completed and every save it started has finished,
\* the persisted message list of the session equals the message list of
\* the screen: no older snapshot overwrites a newer one.
C23_LastSnapshotPersisted ==
    TurnsSettled =>
        LET found == GetChat(files, "general", screen.currentChatId, TRUE)
        IN found # <<>> => found[1].messages = screen.messages

(***************************************************************************)
(* Claims about voice input                                                *)
(***************************************************************************)
\* C24: after handleAudioRecorded finishes, the temporary audio file has
\* been deleted, whether transcription succeeded, returned no speech or
\* failed with an error.
C24_AudioFileDeleted ==
    (screen.kind = "general" /\ ~screen.isTranscribing) =>
        screen.audio \in {"none", "deleted"}

\* the chats of a file other than the one with the given id
OtherChats(f, id) == {f.chats[k] : k \in {j \in 1..Len(f.chats) :
                                            f.chats[j].id # id}}

\* C25: a token streamed for a turn only changes the content of the
\* assistant placeholder created for that turn, in the session the turn
\* was submitted to: when another chat is shown by then, no message of it
\* is modified and nothing is saved under its id.
C25_TokensStayInTheirSession ==
    [][\A i \in 1..Len(calls) :
          (/\ Len(calls') = Len(calls)
           /\ calls'[i].forwarded # calls[i].forwarded)
          => /\ screen'.messages # screen.messages
                => /\ screen.currentChatId = calls[i].session
                   /\ Len(screen'.messages) = Len(screen.messages)
                   /\ \A k \in 1..Len(screen.messages) :
                         screen'.messages[k] # screen.messages[k]
                         => /\ screen.messages[k].id = calls[i].amid
                            /\ screen.messages[k].type = "assistant"
             /\ \A s \in Services :
                   OtherChats(files'[s], calls[i].session)
                     = OtherChats(files[s], calls[i].session)]_vars

\* C26: once deleteChat(service, id) has completed, the id is absent from
\* the collection of the service in every later state, also when an
\* updateChatMessages for the same id was between its awaits during the
\* delete: a deleted session is never inserted again.
C26_DeletedStaysDeleted ==
    lastOp.op = "delete" =>
        lastOp.id \notin IdsOf(files[lastOp.service].chats)

\* C27: a failed or unparsable read of the collection file of a service
\* never makes createChat, saveChat or deleteChat drop the sessions that
\* were persisted before: a write only removes the session deleteChat
\* names, or sessions beyond the 50 kept.
C27_FailedReadDropsNothing ==
    [][\A s \in Services :
          LET lost == IdsOf(files[s].chats) \ IdsOf(files'[s].chats)
          IN lost # {} =>
                \/ lastOp'.op = "delete" /\ lost = {lastOp'.id}
                \/ Len(files'[s].chats) = MaxChats]_vars

(***************************************************************************)
(* Claims about what cleanTranscription removes                            *)
(***************************************************************************)
\* the seven entries of the denylist, as the phrases they are written as
DenyPhrases ==
    {
      <<"[", "B", "L", "A", "N", "K", "_", "A", "U", "D", "I", "O", "]">>,
      <<"[", "M", "U", "S", "I", "C", "]">>,
      <<"[", "N", "O", "I", "S", "E", "]">>,
      <<"(", "i", "n", "a", "u", "d", "i", "b", "l", "e", ")">>,
      <<"T", "h", "a", "n", "k", " ", "y", "o", "u", " ", "f", "o", "r",
        " ", "w", "a", "t", "c", "h", "i", "n", "g">>,
      <<"T", "h", "a", "n", "k", "s", " ", "f", "o", "r", " ", "w", "a",
        "t", "c", "h", "i", "n", "g">>,
      <<"P", "l", "e", "a", "s", "e", " ", "s", "u", "b", "s", "c", "r",
        "i", "b", "e">> }

\* s holds phrase somewhere, letter case aside
Contains(s, phrase) ==
    \E i \in 1..(Len(s) - Len(phrase) + 1) :
        LowerSeq(SubSeq(s, i, i + Len(phrase) - 1)) = LowerSeq(phrase)

\* a transcript with no denylisted phrase, no language prompt and no word
\* repeated 4 or more times in a row
NothingToRemove(text, prompt) ==
    /\ \A p \in DenyPhrases : ~Contains(text, p)
    /\ prompt # <<>> => ~Contains(text, prompt)
    /\ CollapseRuns(WordsOf(text)) = WordsOf(text)

\* C28: cleanTranscription removes only the seven denylisted artifacts,
\* matched as whole phrases, the leaked language prompt and words repeated
\* 4 or more times: a transcript with none of these comes back unchanged
\* apart from the collapsing of whitespace.
C28_OnlyDenylistedRemoved ==
    (/\ pure.fn = "cleanTranscription" /\ pure.done
     /\ NothingToRemove(pure.arg.text, pure.arg.prompt))
        => pure.out = Trim(CollapseSpaces(pure.arg.text))

(***************************************************************************)
(* Claims about the end of a turn                                          *)
(***************************************************************************)
\* C29: every submitted turn returns the screen to idle: when the
\* completion promise settles isGenerating becomes false again, and when
\* the transcription promise settles isTranscribing becomes false again,
\* on success, on a failed createChat and on an engine error alike.
C29_TurnsReturnToIdle ==
    /\ screen.isGenerating ~> ~screen.isGenerating
    /\ screen.isTranscribing ~> ~screen.isTranscribing

\* a typed turn whose chat could not be created, then a spoken turn that
\* ended in an engine error, the screen idle again
C29_Witness ==
    /\ screen.kind = "general"
    /\ screen.audio = "deleted"
    /\ ~screen.isGenerating /\ ~screen.isTranscribing
    /\ \E i, j \in 1..Len(calls) :
          /\ i < j
          /\ calls[i].owner = screen.inst /\ calls[i].status = "resolved"
          /\ calls[i].session = 0
          /\ calls[j].owner = screen.inst /\ calls[j].status = "rejected"


(***************************************************************************)
(* Claims about updates of a chat the collection does not hold             *)
(***************************************************************************)
\* C30: updateChatMessages(domain, id, messages) for an id that is not in
\* the collection of the domain (created in the other domain only,
\* deleted, or evicted by the cap of 50 chats) leaves every file as it
\* was and does not throw, so the messages of that session stay
\* unpersisted.
C30_UpdateOfAbsentChatIsSilentNoOp ==
    [][(/\ lastOp'.op = "update"
        /\ lastOp'.id \notin IdsOf(files[lastOp'.service].chats))
          => (/\ files' = files
              /\ ~lastOp'.threw)]_vars

\* chat 1 was evicted by the 51st chat of its domain, and the last
\* operation was an update of chat 1
C30_Witness ==
    /\ lastOp.op = "update" /\ lastOp.service = LongService /\ lastOp.id = 1
    /\ nextId = MaxChats + 2
    /\ Len(files[LongService].chats) = MaxChats
    /\ 1 \notin IdsOf(files[LongService].chats)

====
